---- MODULE Spec2Model ----
(***************************************************************************)
(* Model of rust_ping (src/main.rs): the ICMP packet codec (checksum,      *)
(* create_icmp_packet), the probe loop of ping(), the statistics engine     *)
(* (calculate_statistics, print_stats), the export step and main().         *)
(*                                                                         *)
(* Units.  A round-trip time is an integer number of ticks of 0.005 ms     *)
(* (200 ticks per millisecond), so that the rounding to two decimals that  *)
(* the code applies is a real conversion.  Values rounded to two decimals  *)
(* are integers in hundredths of a millisecond; max_rtt_estimate is in     *)
(* thousandths of a millisecond.  Option<T> is a sequence: <<>> is None    *)
(* and <<v>> is Some(v).                                                   *)
(***************************************************************************)
EXTENDS Integers, Sequences, FiniteSets, TLC

\* ------------------------------------------------------------------ bounds
MaxCount == 2
MaxLen == 5
MaxResults == 61
MaxPattern == 3

ByteVals == {0, 1, 128, 255}
RTTs == {2469, 12000}
Pids == {4660, 70001}
GraphRtts == {1235, 3000, 6000}

\* ------------------------------------------------------------ Option<T>
None == <<>>
Some(v) == <<v>>
IsSome(o) == Len(o) = 1
Unwrap(o) == o[1]

\* --------------------------------------------------------- arithmetic
\* f64::round on a non-negative quotient n/d: half away from zero
RoundDiv(n, d) == (2 * n + d) \div (2 * d)

\* "{:.1}" formatting of a non-negative quotient n/d: nearest, ties to even
RoundHalfEven(n, d) ==
    LET q == n \div d
        r == n % d
    IN  IF 2 * r < d THEN q
        ELSE IF 2 * r > d THEN q + 1
        ELSE IF q % 2 = 0 THEN q ELSE q + 1

RECURSIVE IsqrtBisect(_, _, _)
IsqrtBisect(x, lo, hi) ==
    IF hi - lo <= 1 THEN lo
    ELSE LET mid == (lo + hi) \div 2
         IN  IF mid <= 46340 /\ mid * mid <= x
             THEN IsqrtBisect(x, mid, hi)
             ELSE IsqrtBisect(x, lo, mid)

\* floor of the square root (f64::sqrt before rounding)
Isqrt(x) == IsqrtBisect(x, 0, 46341)

RECURSIVE SeqSum(_)
SeqSum(s) == IF s = <<>> THEN 0 ELSE s[1] + SeqSum(Tail(s))

RECURSIVE SeqMin(_)
SeqMin(s) == IF Len(s) = 1 THEN s[1]
             ELSE LET m == SeqMin(Tail(s)) IN IF s[1] < m THEN s[1] ELSE m

RECURSIVE SeqMax(_)
SeqMax(s) == IF Len(s) = 1 THEN s[1]
             ELSE LET m == SeqMax(Tail(s)) IN IF s[1] > m THEN s[1] ELSE m

\* ------------------------------------------------------ Packet Codec
\* checksum(): the result is Some(u16), or None when the function panics.
\* wrapped: data.len() - 1 wrapped around (release build, empty input), so
\* the loop condition i < data.len() - 1 is true for every index.
RECURSIVE checksum_words(_, _, _, _)
checksum_words(data, i, wrapped, sum) ==
    IF wrapped \/ i < Len(data) - 1
    THEN IF i + 1 >= Len(data)
         THEN None                       \* data[i + 1] out of bounds: panic
         ELSE checksum_words(data, i + 2, wrapped,
                             sum + (data[i + 1] * 256 + data[i + 2]))
    ELSE Some(sum)

RECURSIVE checksum_fold(_)
checksum_fold(sum) ==
    IF sum \div 65536 > 0
    THEN checksum_fold((sum % 65536) + (sum \div 65536))
    ELSE sum

checksum(data, checks) ==
    IF Len(data) = 0 /\ checks
    THEN None                            \* attempt to subtract with overflow
    ELSE LET words == checksum_words(data, 0, Len(data) = 0, 0)
         IN  IF words = None THEN None
             ELSE LET odd == IF Len(data) % 2 = 1
                             THEN Unwrap(words) + data[Len(data)] * 256
                             ELSE Unwrap(words)
                  IN  Some(65535 - (checksum_fold(odd) % 65536))

\* buffer[at .. at+1] := the big-endian bytes of a u16 (at is 1-based)
SetU16(buffer, at, v) ==
    [i \in 1..Len(buffer) |->
        IF i = at THEN v \div 256
        ELSE IF i = at + 1 THEN v % 256
        ELSE buffer[i]]

GetU16(buffer, at) == buffer[at] * 256 + buffer[at + 1]

Payload == <<82, 117, 115, 116, 80, 105, 110, 103, 33>>

create_icmp_packet(sequence, identifier, checks) ==
    LET zero == [i \in 1..64 |-> 0]
        hdr == [i \in 1..64 |->
                  IF i = 1 THEN 8
                  ELSE IF i = 2 THEN 0
                  ELSE IF i \in 9..17 THEN Payload[i - 8]
                  ELSE zero[i]]
        withSeq == SetU16(hdr, 7, sequence)
        withId == SetU16(withSeq, 5, identifier)
    IN  SetU16(withId, 3, Unwrap(checksum(withId, checks)))

\* the peer's echo reply to a request: type 0, same identifier, sequence
\* number and payload, checksum recomputed
echo_reply(request, checks) ==
    LET zeroed == SetU16([request EXCEPT ![1] = 0], 3, 0)
    IN  SetU16(zeroed, 3, Unwrap(checksum(zeroed, checks)))

reply_identifier(d) == GetU16(d, 5)
reply_sequence(d) == GetU16(d, 7)

\* ------------------------------------------------- Statistics Engine
\* sum over i < j of (t[i] - t[j])^2  =  n * sum(t^2) - sum(t)^2
RECURSIVE PairSq(_)
PairSq(t) ==
    IF Len(t) <= 1 THEN 0
    ELSE LET rest == Tail(t)
             RECURSIVE Row(_)
             Row(k) == IF k = 0 THEN 0
                       ELSE (t[1] - rest[k]) * (t[1] - rest[k]) + Row(k - 1)
         IN  Row(Len(rest)) + PairSq(rest)

\* a slip: the percentage of the probes that were answered
loss_percent_received(failed, total) ==
    RoundDiv((total - failed) * 10000, total)

\* ((failed / total) * 100.0 * 100.0).round() / 100.0, in hundredths of 1%
loss_percent(failed, total) == RoundDiv(failed * 10000, total)

\* a slip: every probe counted as lost
failed_count_all(total, successful) == total

\* let failed = total - successful
failed_count(total, successful) == total - successful

calculate_statistics(tms, total) ==
    LET successful == Len(tms)
        failed == failed_count(total, successful)
    IN  IF tms = <<>>
        THEN [min_ms |-> None, max_ms |-> None, avg_ms |-> None,
              std_dev_ms |-> None,
              packets_sent |-> total,
              packets_received |-> successful,
              packets_lost |-> failed,
              packet_loss_percent |-> 10000]
        ELSE LET n == Len(tms)
                 std_ticks == Isqrt(PairSq(tms) \div (n * n))
             IN  [min_ms |-> Some(RoundDiv(SeqMin(tms), 2)),
                  max_ms |-> Some(RoundDiv(SeqMax(tms), 2)),
                  avg_ms |-> Some(RoundDiv(SeqSum(tms), 2 * n)),
                  std_dev_ms |-> Some((std_ticks + 1) \div 2),
                  packets_sent |-> total,
                  packets_received |-> successful,
                  packets_lost |-> failed,
                  packet_loss_percent |-> loss_percent(failed, total)]

\* the "Packets:" line of print_stats; the percentage is
\* (failed as f64 / total as f64) * 100.0 printed with {:.1}: NaN when
\* total is 0 (0.0 / 0.0), else tenths of 1%
print_stats(tms, total, successful) ==
    LET failed == total - successful
    IN  [sent |-> total, received |-> successful, lost |-> failed,
         loss_nan |-> (total = 0),
         loss_tenths |-> IF total = 0 THEN 0
                         ELSE RoundHalfEven(failed * 1000, total)]

\* ------------------------------------------------- Presentation Layer
\* let height = 10
height == 10

\* the cap of "results.len().min(60)"
max_width == 60

\* the f64 values of the results that have one (filter_map(|r| r.rtt_ms))
RECURSIVE graph_times(_)
graph_times(res) ==
    IF res = <<>> THEN <<>>
    ELSE IF IsSome(res[1].rtt_ms)
         THEN <<Unwrap(res[1].rtt_ms)>> \o graph_times(Tail(res))
         ELSE graph_times(Tail(res))

\* a slip: the bucket is used as the row, which turns the graph upside down
graph_row_upright(rtt, min_rtt, max_rtt) ==
    LET normalized == IF max_rtt > min_rtt
                      THEN ((rtt - min_rtt) * (height - 1))
                              \div (max_rtt - min_rtt)
                      ELSE height \div 2
    IN  IF normalized < height - 1 THEN normalized ELSE height - 1

\* the row of a result with a round-trip time: "normalized", then
\* height - 1 - normalized.min(height - 1)
graph_row(rtt, min_rtt, max_rtt) ==
    LET normalized == IF max_rtt > min_rtt
                      THEN ((rtt - min_rtt) * (height - 1))
                              \div (max_rtt - min_rtt)
                      ELSE height \div 2
    IN  height - 1 - (IF normalized < height - 1 THEN normalized
                      ELSE height - 1)

\* draw_line_graph: None for "No data to graph", else Some of the matrix;
\* graph[r][c] is "dot", "line", "cross" or " ", rows and columns from 0
draw_line_graph(res) ==
    LET tms == graph_times(res)
    IN  IF tms = <<>> THEN None
        ELSE LET max_rtt == IF SeqMax(tms) > 0 THEN SeqMax(tms) ELSE 0
                 min_rtt == SeqMin(tms)
                 width == IF Len(res) < max_width THEN Len(res)
                          ELSE max_width
                 cell(r, i) ==
                    IF IsSome(res[i + 1].rtt_ms)
                    THEN LET row == graph_row(Unwrap(res[i + 1].rtt_ms),
                                              min_rtt, max_rtt)
                         IN  IF r = row THEN "dot"
                             ELSE IF r > row THEN "line"
                             ELSE " "
                    ELSE IF r = height - 1 THEN "cross" ELSE " "
             IN  Some([width |-> width,
                       graph |-> [r \in 0..(height - 1) |->
                                    [i \in 0..(width - 1) |-> cell(r, i)]]])

\* ---------------------------------------------------------------- state
VARIABLES
    count,              \* Args.count
    json_file,          \* Args.json is Some
    csv_file,           \* Args.csv is Some
    show_line,          \* Args.line_graph
    pid,                \* std::process::id()
    overflow_checks,    \* build profile: integer overflow panics (debug)
    pc,                 \* position of main() / ping()
    seq,                \* loop variable of "for seq in 0..count"
    identifier,         \* ping(): identifier
    results,            \* ping(): results
    times,              \* ping(): times
    max_rtt_estimate,   \* ping(): max_rtt_estimate
    sent,               \* datagrams handed to tx.send_to, in order
    wire,               \* echo requests the peer has not answered
    sock,               \* datagrams waiting in the raw ICMP socket
    rxlog,              \* per probe, what send_to / next_with_timeout returned
    slept,              \* sequence numbers after which the loop slept
    printed,            \* Some(print_stats line) once printed
    stats,              \* Some(stats) once computed for export
    graph,              \* Some(line graph) once drawn
    json_out,           \* the JSON file: "absent", "partial" or "complete"
    csv_out,            \* the CSV file: "absent", "partial" or "complete"
    error,              \* message on the error stream: "" when none
    data,               \* checksum(): the buffer
    cs,                 \* checksum(): Some(result), None before / on panic
    ckpc                \* position of the checksum round trip

vars == <<count, json_file, csv_file, show_line, graph, pid, overflow_checks, pc, seq,
          identifier, results, times, max_rtt_estimate, sent, wire, sock,
          rxlog, slept, printed, stats, json_out, csv_out, error,
          data, cs, ckpc>>

argvars == <<count, json_file, csv_file, show_line, pid, overflow_checks>>
ckvars == <<data, cs, ckpc>>
netvars == <<sent, wire, sock>>
outvars == <<printed, stats, graph, json_out, csv_out>>

\* the state of main() before it runs
Idle ==
    /\ seq = 0
    /\ identifier = 0
    /\ results = <<>>
    /\ times = <<>>
    /\ max_rtt_estimate = 0
    /\ sent = <<>>
    /\ wire = {}
    /\ sock = {}
    /\ rxlog = <<>>
    /\ slept = {}
    /\ printed = None
    /\ stats = None
    /\ graph = None
    /\ json_out = "absent"
    /\ csv_out = "absent"
    /\ error = ""

Init ==
    /\ count \in 0..MaxCount
    /\ json_file \in BOOLEAN
    /\ csv_file \in BOOLEAN
    /\ show_line \in BOOLEAN
    /\ pid \in Pids
    /\ overflow_checks \in BOOLEAN
    /\ pc = "main"
    /\ Idle
    /\ data = <<>>
    /\ cs = None
    /\ ckpc = "off"

\* ----------------------------------------------------------------- main
\* args.host parses as an address, or resolves to one
resolve_ok ==
    /\ pc = "main"
    /\ pc' = "ping"
    /\ UNCHANGED <<argvars, ckvars, netvars, outvars, seq, identifier,
                   results, times, max_rtt_estimate, rxlog, slept, error>>

\* "Could not resolve" / "DNS error": main returns
resolve_error ==
    /\ pc = "main"
    /\ pc' = "exit"
    /\ error' = "resolve"
    /\ UNCHANGED <<argvars, ckvars, netvars, outvars, seq, identifier,
                   results, times, max_rtt_estimate, rxlog, slept>>

\* ----------------------------------------------------------------- ping
\* transport_channel succeeds; locals are initialised, the header printed
channel_ok ==
    /\ pc = "ping"
    /\ identifier' = pid % 65536
    /\ results' = <<>>
    /\ times' = <<>>
    /\ max_rtt_estimate' = 50000
    /\ seq' = 0
    /\ pc' = "loop"
    /\ UNCHANGED <<argvars, ckvars, netvars, outvars, rxlog, slept, error>>

\* a slip: the error is reported but the run goes on
channel_error_ignored ==
    /\ pc = "ping"
    /\ error' = "channel"
    /\ identifier' = pid % 65536
    /\ results' = <<>>
    /\ times' = <<>>
    /\ max_rtt_estimate' = 50000
    /\ seq' = 0
    /\ pc' = "loop"
    /\ UNCHANGED <<argvars, ckvars, netvars, outvars, rxlog, slept>>

\* transport_channel fails: ping returns Err, main prints it
channel_error ==
    /\ pc = "ping"
    /\ pc' = "exit"
    /\ error' = "channel"
    /\ UNCHANGED <<argvars, ckvars, netvars, outvars, seq, identifier,
                   results, times, max_rtt_estimate, rxlog, slept>>

\* what the transport returned for one probe: kind is "send_error" (send_to
\* returned Err), "reply" (Ok(Some)), "timeout" (Ok(None)) or "recv_error"
\* (Err); reply is the datagram of Ok(Some), which the code binds to "_"
outcome(kind, reply) == [kind |-> kind, reply |-> reply]

\* PingResult of a probe that got no reply
lost_result(s) == [seq |-> s, rtt_ms |-> None, success |-> FALSE]

\* PingResult of a probe that got a reply after rtt ticks
reply_result(s, rtt) ==
    [seq |-> s, rtt_ms |-> Some(RoundDiv(rtt, 2)), success |-> TRUE]

\* a slip: the scale follows the latest round-trip time
max_estimate_latest(est, rtt) == rtt * 6

\* max_rtt_estimate.max(rtt * 1.2), in thousandths of a millisecond
max_estimate(est, rtt) == IF rtt * 6 > est THEN rtt * 6 ELSE est

\* the end of the loop body: "if seq < count - 1 { sleep }", then the next
\* iteration
end_of_body ==
    IF seq < count - 1
    THEN pc' = "sleep" /\ seq' = seq
    ELSE pc' = "loop" /\ seq' = seq + 1

\* tx.send_to succeeds
send_ok ==
    /\ pc = "loop"
    /\ seq < count
    /\ LET packet == create_icmp_packet(seq % 65536, identifier,
                                        overflow_checks)
       IN  /\ sent' = Append(sent, packet)
           /\ wire' = wire \cup {packet}
    /\ pc' = "wait"
    /\ UNCHANGED <<argvars, ckvars, outvars, sock, seq, identifier, results,
                   times, max_rtt_estimate, rxlog, slept, error>>

\* a slip: the failed probe is retried under the same sequence number
send_error_retry ==
    /\ pc = "loop"
    /\ seq < count
    /\ results' = Append(results, lost_result(seq))
    /\ rxlog' = Append(rxlog, outcome("send_error", None))
    /\ seq' = seq
    /\ pc' = "loop"
    /\ UNCHANGED <<argvars, ckvars, netvars, outvars, identifier, times,
                   max_rtt_estimate, slept, error>>

\* tx.send_to fails: the result is recorded and the loop continues
send_error ==
    /\ pc = "loop"
    /\ seq < count
    /\ results' = Append(results, lost_result(seq))
    /\ rxlog' = Append(rxlog, outcome("send_error", None))
    /\ seq' = seq + 1
    /\ pc' = "loop"
    /\ UNCHANGED <<argvars, ckvars, netvars, outvars, identifier, times,
                   max_rtt_estimate, slept, error>>

\* next_with_timeout returns Ok(Some(_)): any datagram of the socket
recv_reply ==
    /\ pc = "wait"
    /\ \E d \in sock, rtt \in RTTs :
          /\ sock' = sock \ {d}
          /\ times' = Append(times, rtt)
          /\ results' = Append(results, reply_result(seq, rtt))
          /\ rxlog' = Append(rxlog, outcome("reply", Some(d)))
          /\ max_rtt_estimate' = max_estimate(max_rtt_estimate, rtt)
    /\ end_of_body
    /\ UNCHANGED <<argvars, ckvars, outvars, sent, wire, identifier, slept,
                   error>>

\* next_with_timeout returns Ok(None): nothing arrived within the timeout
recv_timeout ==
    /\ pc = "wait"
    /\ sock = {}
    /\ results' = Append(results, lost_result(seq))
    /\ rxlog' = Append(rxlog, outcome("timeout", None))
    /\ end_of_body
    /\ UNCHANGED <<argvars, ckvars, netvars, outvars, identifier, times,
                   max_rtt_estimate, slept, error>>

\* a slip: the receive error is propagated with "?"
recv_error_fatal ==
    /\ pc = "wait"
    /\ rxlog' = Append(rxlog, outcome("recv_error", None))
    /\ error' = "receive"
    /\ pc' = "exit"
    /\ UNCHANGED <<argvars, ckvars, netvars, outvars, seq, identifier,
                   results, times, max_rtt_estimate, slept>>

\* next_with_timeout returns Err(e)
recv_error ==
    /\ pc = "wait"
    /\ results' = Append(results, lost_result(seq))
    /\ rxlog' = Append(rxlog, outcome("recv_error", None))
    /\ end_of_body
    /\ UNCHANGED <<argvars, ckvars, netvars, outvars, identifier, times,
                   max_rtt_estimate, slept, error>>

\* std::thread::sleep(1 s), then the next iteration
sleep ==
    /\ pc = "sleep"
    /\ slept' = slept \cup {seq}
    /\ seq' = seq + 1
    /\ pc' = "loop"
    /\ UNCHANGED <<argvars, ckvars, netvars, outvars, identifier, results,
                   times, max_rtt_estimate, rxlog, error>>

\* after the loop: print_stats, the line graph, then the statistics for
\* export
report ==
    /\ pc = "loop"
    /\ ~(seq < count)
    /\ printed' = Some(print_stats(times, count, Len(times)))
    /\ graph' = IF show_line /\ results # <<>>
                THEN draw_line_graph(results)
                ELSE None
    /\ stats' = Some(calculate_statistics(times, count))
    /\ pc' = "json"
    /\ UNCHANGED <<argvars, ckvars, netvars, json_out, csv_out, seq,
                   identifier, results, times, max_rtt_estimate, rxlog,
                   slept, error>>

\* "if let Some(filename) = json_file": no JSON export requested
json_skip ==
    /\ pc = "json"
    /\ ~json_file
    /\ pc' = "csv"
    /\ UNCHANGED <<argvars, ckvars, netvars, outvars, seq, identifier,
                   results, times, max_rtt_estimate, rxlog, slept, error>>

\* export_json returns Ok
json_ok ==
    /\ pc = "json"
    /\ json_file
    /\ json_out' = "complete"
    /\ pc' = "csv"
    /\ UNCHANGED <<argvars, ckvars, netvars, printed, stats, graph, csv_out, seq,
                   identifier, results, times, max_rtt_estimate, rxlog,
                   slept, error>>

\* export_json returns Err (File::create or write_all failed): "?" makes
\* ping return the error
json_error ==
    /\ pc = "json"
    /\ json_file
    /\ json_out' \in {"absent", "partial"}
    /\ error' = "json"
    /\ pc' = "exit"
    /\ UNCHANGED <<argvars, ckvars, netvars, printed, stats, graph, csv_out, seq,
                   identifier, results, times, max_rtt_estimate, rxlog,
                   slept>>

\* "if let Some(filename) = csv_file": no CSV export requested; Ok(())
csv_skip ==
    /\ pc = "csv"
    /\ ~csv_file
    /\ pc' = "exit"
    /\ UNCHANGED <<argvars, ckvars, netvars, outvars, seq, identifier,
                   results, times, max_rtt_estimate, rxlog, slept, error>>

\* export_csv returns Ok; ping returns Ok(())
csv_ok ==
    /\ pc = "csv"
    /\ csv_file
    /\ csv_out' = "complete"
    /\ pc' = "exit"
    /\ UNCHANGED <<argvars, ckvars, netvars, printed, stats, graph, json_out, seq,
                   identifier, results, times, max_rtt_estimate, rxlog,
                   slept, error>>

\* export_csv returns Err (File::create or a writeln failed)
csv_error ==
    /\ pc = "csv"
    /\ csv_file
    /\ csv_out' \in {"absent", "partial"}
    /\ error' = "csv"
    /\ pc' = "exit"
    /\ UNCHANGED <<argvars, ckvars, netvars, printed, stats, graph, json_out, seq,
                   identifier, results, times, max_rtt_estimate, rxlog,
                   slept>>

\* ---------------------------------------------------------- environment
\* the raw socket is open while ping() runs its loop
channel_open == pc \in {"loop", "wait", "sleep"}

\* the peer answers an echo request of this run; the reply reaches the
\* socket now, possibly after the wait of its probe has ended
peer_reply ==
    /\ channel_open
    /\ \E p \in wire :
          /\ wire' = wire \ {p}
          /\ sock' = sock \cup {echo_reply(p, overflow_checks)}
    /\ UNCHANGED <<argvars, ckvars, outvars, sent, pc, seq, identifier,
                   results, times, max_rtt_estimate, rxlog, slept, error>>

\* an echo reply addressed to another process (another identifier) reaches
\* the raw socket, which receives every ICMP datagram of the host
foreign_datagram ==
    echo_reply(create_icmp_packet(0, (identifier + 1) % 65536,
                                  overflow_checks), overflow_checks)

foreign_reply ==
    /\ channel_open
    /\ foreign_datagram \notin sock
    /\ sock' = sock \cup {foreign_datagram}
    /\ UNCHANGED <<argvars, ckvars, outvars, sent, wire, pc, seq, identifier,
                   results, times, max_rtt_estimate, rxlog, slept, error>>

Next ==
    \/ resolve_ok
    \/ resolve_error
    \/ channel_ok
    \/ channel_error
    \/ send_ok
    \/ send_error
    \/ recv_reply
    \/ recv_timeout
    \/ recv_error
    \/ sleep
    \/ report
    \/ json_skip
    \/ json_ok
    \/ json_error
    \/ csv_skip
    \/ csv_ok
    \/ csv_error
    \/ peer_reply
    \/ foreign_reply

Spec == Init /\ [][Next]_vars

\* ------------------------------------------- the checksum round trip
\* buffers of at most MaxLen bytes whose checksum field (bytes 2..3 of an
\* ICMP message) is zero
Buffers ==
    UNION {{b \in [1..n -> ByteVals] :
               /\ (n >= 3 => b[3] = 0)
               /\ (n >= 4 => b[4] = 0)} : n \in 0..MaxLen}

InitChecksum ==
    /\ count = 0
    /\ json_file = FALSE
    /\ csv_file = FALSE
    /\ show_line = FALSE
    /\ pid = 0
    /\ overflow_checks \in BOOLEAN
    /\ pc = "off"
    /\ Idle
    /\ data \in Buffers
    /\ cs = None
    /\ ckpc = "input"

\* let cs = checksum(packet.packet())
compute_checksum ==
    /\ ckpc = "input"
    /\ cs' = checksum(data, overflow_checks)
    /\ ckpc' = IF cs' = None THEN "panicked" ELSE "computed"
    /\ UNCHANGED <<argvars, netvars, outvars, pc, seq, identifier, results,
                   times, max_rtt_estimate, rxlog, slept, error, data>>

\* packet.set_checksum(cs): the checksum goes into the checksum field; a
\* buffer too short to have one gets it as a trailing word
with_checksum(buffer, c) ==
    IF Len(buffer) >= 4
    THEN SetU16(buffer, 3, c)
    ELSE (IF Len(buffer) % 2 = 1 THEN Append(buffer, 0) ELSE buffer)
         \o <<c \div 256, c % 256>>

store_checksum ==
    /\ ckpc = "computed"
    /\ data' = with_checksum(data, Unwrap(cs))
    /\ ckpc' = "stored"
    /\ UNCHANGED <<argvars, netvars, outvars, pc, seq, identifier, results,
                   times, max_rtt_estimate, rxlog, slept, error, cs>>

NextChecksum ==
    \/ compute_checksum
    \/ store_checksum

SpecChecksum == InitChecksum /\ [][NextChecksum]_vars

\* ------------------------------------------------ the line graph alone
\* a result sequence of n probes whose outcomes repeat the pattern p (None:
\* no reply; Some(rtt): a reply, rtt in hundredths of a millisecond)
graph_input(n, p) ==
    [i \in 1..n |->
        LET o == p[((i - 1) % Len(p)) + 1]
        IN  [seq |-> i - 1, rtt_ms |-> o, success |-> IsSome(o)]]

GraphInputs ==
    LET cells == {None} \cup {Some(r) : r \in GraphRtts}
        patterns == UNION {[1..k -> cells] : k \in 1..MaxPattern}
    IN  {graph_input(n, p) : n \in 0..MaxResults, p \in patterns}

InitGraph ==
    /\ results \in GraphInputs
    /\ count = Len(results)
    /\ json_file = FALSE
    /\ csv_file = FALSE
    /\ show_line = TRUE
    /\ pid = 0
    /\ overflow_checks = FALSE
    /\ pc = "graph"
    /\ seq = 0
    /\ identifier = 0
    /\ times = <<>>
    /\ max_rtt_estimate = 0
    /\ sent = <<>>
    /\ wire = {}
    /\ sock = {}
    /\ rxlog = <<>>
    /\ slept = {}
    /\ printed = None
    /\ stats = None
    /\ graph = None
    /\ json_out = "absent"
    /\ csv_out = "absent"
    /\ error = ""
    /\ data = <<>>
    /\ cs = None
    /\ ckpc = "off"

\* draw_line_graph(&results)
draw_graph ==
    /\ pc = "graph"
    /\ graph' = draw_line_graph(results)
    /\ pc' = "graphed"
    /\ UNCHANGED <<argvars, ckvars, netvars, printed, stats, json_out,
                   csv_out, seq, identifier, results, times,
                   max_rtt_estimate, rxlog, slept, error>>

NextGraph == draw_graph

SpecGraph == InitGraph /\ [][NextGraph]_vars

\* ================================================================ claims
\* the probe loop has terminated (ping is past "for seq in 0..count")
loop_done ==
    \/ (pc = "loop" /\ ~(seq < count))
    \/ pc \in {"json", "csv"}
    \/ (pc = "exit" /\ error \notin {"resolve", "channel"})

Successes == {i \in 1..Len(results) : results[i].success}

\* C1: in every state the results are probe 0, 1, ..., k-1 in that order
\* (k <= count), each sequence number once, and once the loop has
\* terminated there are exactly count of them, whatever the outcomes.
C1_ResultsAreTheSequence ==
    /\ Len(results) <= count
    /\ \A i \in 1..Len(results) : results[i].seq = i - 1
    /\ (loop_done => Len(results) = count)

C1_Witness ==
    /\ loop_done
    /\ count >= 2
    /\ Len(results) = count
    /\ \E i, j \in 1..Len(rxlog) :
          rxlog[i].kind = "send_error" /\ rxlog[j].kind = "reply"

\* C2: a probe is a success only if the datagram received during its wait
\* carries the run's identifier and the probe's sequence number.
C2_SuccessOnlyForOwnReply ==
    \A i \in 1..Len(results) :
       results[i].success =>
          /\ IsSome(rxlog[i].reply)
          /\ reply_identifier(Unwrap(rxlog[i].reply)) = identifier
          /\ reply_sequence(Unwrap(rxlog[i].reply)) = results[i].seq % 65536

\* C3: a send failure or a receive error of probe s appends exactly one
\* result (s, no RTT, not succeeded), the loop goes on to probe s+1, and the
\* loop ends only after all count probes have been attempted.
C3_ProbeFailureNotFatal ==
    /\ Len(rxlog) = Len(results)
    /\ \A i \in 1..Len(rxlog) :
          rxlog[i].kind \in {"send_error", "recv_error"} =>
             /\ i <= Len(results)
             /\ results[i] = [seq |-> i - 1, rtt_ms |-> None,
                              success |-> FALSE]
    /\ (pc \in {"loop", "wait"} => seq = Len(results))
    /\ (pc = "sleep" => seq + 1 = Len(results))
    /\ (loop_done => Len(results) = count)
    /\ error \in {"", "resolve", "channel", "json", "csv"}

C3_Witness ==
    /\ pc = "exit"
    /\ error = ""
    /\ count >= 2
    /\ rxlog[1].kind = "send_error"
    /\ rxlog[2].kind = "recv_error"

\* C4: the statistics of a run count every result as sent, every succeeded
\* result as received, and the rest as lost.
C4_PacketCounts ==
    IsSome(stats) =>
       LET st == Unwrap(stats)
       IN  /\ st.packets_sent = Len(results)
           /\ st.packets_received = Cardinality(Successes)
           /\ st.packets_lost = st.packets_sent - st.packets_received
           /\ st.packets_sent = st.packets_received + st.packets_lost

C4_Witness ==
    /\ IsSome(stats)
    /\ Cardinality(Successes) >= 1
    /\ Cardinality(Successes) < Len(results)

\* C5: with both exports requested, the failure of one export does not
\* keep the other from being performed, and leaves results and statistics
\* as they were.
C5_ExportsIndependent ==
    (pc = "exit" /\ IsSome(printed) /\ json_file /\ csv_file) =>
       /\ (json_out = "complete" \/ error = "json")
       /\ (csv_out = "complete" \/ error = "csv")
       /\ Len(results) = count
       /\ stats = Some(calculate_statistics(times, count))

\* C6: for every buffer with a zero checksum field, checksum() returns, and
\* the buffer with the checksum stored has a folded word sum of 0xFFFF.
RECURSIVE WordSum(_)
WordSum(b) ==
    IF Len(b) = 0 THEN 0
    ELSE IF Len(b) = 1 THEN b[1] * 256
    ELSE b[1] * 256 + b[2] + WordSum(SubSeq(b, 3, Len(b)))

RECURSIVE Fold(_)
Fold(x) == IF x > 65535 THEN Fold((x % 65536) + (x \div 65536)) ELSE x

C6_ChecksumVerifies ==
    /\ ckpc # "panicked"
    /\ (ckpc = "stored" => Fold(WordSum(data)) = 65535)

\* the identity for the buffers checksum() accepts (the non-empty ones)
ChecksumVerifiesWhenReturned ==
    /\ (ckpc = "panicked" => data = <<>>)
    /\ (ckpc = "stored" => Fold(WordSum(data)) = 65535)

\* C7: the run starts with count >= 1, and no loss percentage is computed
\* from a total of zero.
C7_CountAtLeastOne ==
    IsSome(printed) =>
       /\ count >= 1
       /\ Unwrap(printed).sent >= 1
       /\ ~Unwrap(printed).loss_nan

\* C8: a run that hits a resolution or channel error has ended without a
\* packet sent, a result, printed statistics or an export file.
C8_FatalSetupError ==
    error \in {"resolve", "channel"} =>
       /\ pc = "exit"
       /\ sent = <<>>
       /\ results = <<>>
       /\ rxlog = <<>>
       /\ printed = None
       /\ stats = None
       /\ json_out = "absent"
       /\ csv_out = "absent"

C8_Witness ==
    /\ error = "channel"
    /\ count >= 1
    /\ json_file
    /\ csv_file

\* C9: with count >= 1, all probes succeeded gives loss 0.00 %; all probes
\* failed gives loss 100.00 % and no min, max, mean or standard deviation.
C9_LossExtremes ==
    (IsSome(stats) /\ count >= 1) =>
       LET st == Unwrap(stats)
       IN  /\ (Cardinality(Successes) = Len(results) =>
                  st.packet_loss_percent = 0)
           /\ (Successes = {} =>
                  /\ st.packet_loss_percent = 10000
                  /\ st.min_ms = None
                  /\ st.max_ms = None
                  /\ st.avg_ms = None
                  /\ st.std_dev_ms = None)

C9_Witness ==
    /\ IsSome(stats)
    /\ count >= 2
    /\ Cardinality(Successes) = count
    /\ Unwrap(stats).packet_loss_percent = 0

\* C10: the loop sleeps after every probe but the last before it goes on,
\* whatever the probe's outcome, and does not sleep after the last.
C10_SleepBetweenProbes ==
    \A s \in 0..(count - 1) :
       /\ (s \in slept => s < count - 1)
       /\ ((s < count - 1 /\ seq > s) => s \in slept)

\* C11: the bar scale starts at the seed (50 ms), never decreases, is left
\* as it is by a probe that fails, and is always the larger of the seed and
\* 1.2 times the largest round-trip time so far.
LargestScale(tms) ==
    LET seed == 50000
    IN  IF tms = <<>> \/ SeqMax(tms) * 6 <= seed
        THEN seed
        ELSE SeqMax(tms) * 6

C11_BarScaleNeverShrinks ==
    [][/\ max_rtt_estimate' >= max_rtt_estimate
       /\ (pc' \in {"loop", "wait", "sleep", "json", "csv"} =>
              max_rtt_estimate' = LargestScale(times'))
       /\ ((Len(results') = Len(results) + 1
               /\ ~results'[Len(results')].success) =>
              max_rtt_estimate' = max_rtt_estimate)]_vars

C11_Witness ==
    /\ Len(times) >= 2
    /\ times[2] < times[1]
    /\ times[1] * 6 > 50000
    /\ max_rtt_estimate = times[1] * 6
    /\ Len(results) = 2

\* C12: the line graph shows the results: a result with a round-trip time
\* has its one marker in its own column, at row height-1 minus its bucket
\* between the smallest and the largest round-trip time of the run (the
\* largest at row 0, the smallest at row height-1, a center row when they
\* are equal); a result without one has the timeout marker at the bottom of
\* its column.
RttValues == {Unwrap(results[k].rtt_ms) :
                 k \in {j \in 1..Len(results) : IsSome(results[j].rtt_ms)}}

Lowest == CHOOSE v \in RttValues : \A w \in RttValues : v <= w
Highest == CHOOSE v \in RttValues : \A w \in RttValues : v >= w

\* result number i (from 0) is shown as the claim says
Shown(i) ==
    /\ IsSome(graph)
    /\ i < Unwrap(graph).width
    /\ LET g == Unwrap(graph).graph
           r == results[i + 1]
           Dots == {row \in 0..(height - 1) : g[row][i] = "dot"}
       IN  IF IsSome(r.rtt_ms)
           THEN LET rtt == Unwrap(r.rtt_ms)
                IN  /\ Cardinality(Dots) = 1
                    /\ g[height - 1][i] # "cross"
                    /\ (Lowest = Highest =>
                           Dots \subseteq {(height - 1) \div 2, height \div 2})
                    /\ (Lowest < Highest =>
                           Dots = {height - 1
                                   - ((rtt - Lowest) * (height - 1))
                                        \div (Highest - Lowest)})
                    /\ ((Lowest < Highest /\ rtt = Highest) => Dots = {0})
                    /\ ((Lowest < Highest /\ rtt = Lowest) =>
                           Dots = {height - 1})
           ELSE /\ Dots = {}
                /\ g[height - 1][i] = "cross"

\* C12 as stated: every result of the sequence, for any probe count
C12_GraphShowsEveryResult ==
    pc = "graphed" => \A i \in 0..(Len(results) - 1) : Shown(i)

\* C12 as amended: a graph is drawn exactly when some probe succeeded, and
\* it then shows the first 60 results (all of them when there are at most
\* 60), one column each
C12_GraphShowsFirstSixty ==
    pc = "graphed" =>
       /\ (IsSome(graph) <=> RttValues # {})
       /\ (IsSome(graph) =>
              /\ Unwrap(graph).width =
                    (IF Len(results) < 60 THEN Len(results) ELSE 60)
              /\ \A i \in 0..(Unwrap(graph).width - 1) : Shown(i))

C12_Witness ==
    /\ pc = "graphed"
    /\ IsSome(graph)
    /\ Len(results) > 60
    /\ Unwrap(graph).width = 60
    /\ \E i \in 0..59 : Unwrap(graph).graph[0][i] = "dot"
    /\ \E i \in 0..59 : Unwrap(graph).graph[height - 1][i] = "dot"
    /\ \E i \in 0..59 : Unwrap(graph).graph[height - 1][i] = "cross"

====
